---- MODULE Spec2Model ----
(***************************************************************************)
(* Shape-level model of models/networks.py (MeshCNN with attention):       *)
(* the factory define_classifier, the constructors of the four network     *)
(* variants, and their forward passes.  A tensor is modelled by its shape  *)
(* (batch, channels, edges) and by the operation that produced it; the     *)
(* numeric content of convolutions and attention is not modelled.          *)
(* Python sequences are 0-based; the helper At(s, i) reads s[i].           *)
(***************************************************************************)
EXTENDS Integers, Sequences, FiniteSets, TLC

VARIABLES opt, net, pc, err, layersBuilt, fe, mesh, encoder_outs, idx, calls, passes

vars == <<opt, net, pc, err, layersBuilt, fe, mesh, encoder_outs, idx, calls, passes>>

(***************************************************************************)
(* Bounds of the model.                                                    *)
(***************************************************************************)
\* longest channel schedule (ncf) and pooling schedule (opt.pool_res) tried
MaxStages == 3
\* forward passes run on the one mesh object
MaxPasses == 2
\* batch size B of the input tensor
BatchSize == 2
\* input_nc: channels of the input features
InputNc == 5
\* ninput_edges: edge count E of the input mesh
NInputEdges == 8
\* nclasses
NClasses == 7
\* opt.fc_n: width of the classifier's hidden fully-connected layer
FcN == 6
\* opt.resblocks
ResBlocks == 1
\* opt.num_groups
NumGroups == 1
\* a head count given for opt.attn_n_heads (None is modelled by NoHeads)
Heads == 2

(***************************************************************************)
(* Python values.                                                          *)
(***************************************************************************)
\* opt.attn_n_heads = None
NoHeads == 0

\* s[i] of a Python list, 0 <= i < len(s)
At(s, i) == s[i + 1]

\* s[-j] of a Python list, 1 <= j <= len(s)
FromEnd(s, j) == s[Len(s) - j + 1]

\* s[:-1]
Front(s) == SubSeq(s, 1, Len(s) - 1)

\* s[::-1], list.reverse()
Reverse(s) == [i \in 1..Len(s) |-> s[Len(s) - i + 1]]

\* all sequences over S of length at most n
SeqsUpTo(S, n) == UNION {[1..m -> S] : m \in 0..n}

(***************************************************************************)
(* Tensors: None, or a shape (b, ch, edges) tagged with the operation and  *)
(* the stage that produced it.  A 2-d tensor (rows, cols) has edges = 0.   *)
(***************************************************************************)
None == [isNone |-> TRUE, b |-> 0, ch |-> 0, edges |-> 0, by |-> "None", stage |-> 0]

Tensor(b, ch, edges, by, stage) ==
    [isNone |-> FALSE, b |-> b, ch |-> ch, edges |-> edges, by |-> by, stage |-> stage]

(***************************************************************************)
(* Normalization helpers.                                                  *)
(***************************************************************************)
NormTypes == {"batch", "instance", "group", "none", "layer"}

\* get_norm_layer: a functools.partial (no __name__, a .func) or the class
\* NoNorm (a __name__); any other kind raises.
get_norm_layer(norm_type, num_groups) ==
    CASE norm_type = "batch" ->
           [raised |-> "", hasName |-> FALSE, name |-> "", func |-> "BatchNorm2d",
            num_groups |-> 0]
      [] norm_type = "instance" ->
           [raised |-> "", hasName |-> FALSE, name |-> "", func |-> "InstanceNorm2d",
            num_groups |-> 0]
      [] norm_type = "group" ->
           [raised |-> "", hasName |-> FALSE, name |-> "", func |-> "GroupNorm",
            num_groups |-> num_groups]
      [] norm_type = "none" ->
           [raised |-> "", hasName |-> TRUE, name |-> "NoNorm", func |-> "",
            num_groups |-> 0]
      [] OTHER ->
           [raised |-> "NotImplementedError", hasName |-> FALSE, name |-> "", func |-> "",
            num_groups |-> 0]

\* get_norm_args: one keyword-argument dict per entry of nfeats_list, chosen by
\* the name of the class behind norm_layer.
get_norm_args(norm_layer, nfeats_list) ==
    IF norm_layer.hasName /\ norm_layer.name = "NoNorm"
    THEN [raised |-> "",
          args |-> [i \in 1..Len(nfeats_list) |-> [key |-> "fake", val |-> 1]]]
    ELSE IF norm_layer.func = "GroupNorm"
    THEN [raised |-> "",
          args |-> [i \in 1..Len(nfeats_list) |->
                        [key |-> "num_channels", val |-> nfeats_list[i]]]]
    ELSE IF norm_layer.func = "BatchNorm"
    THEN [raised |-> "",
          args |-> [i \in 1..Len(nfeats_list) |->
                        [key |-> "num_features", val |-> nfeats_list[i]]]]
    ELSE [raised |-> "NotImplementedError", args |-> <<>>]

\* norm_layer(**norm_args[i]): NoNorm(fake=True) stores the flag;
\* torch's GroupNorm refuses a channel count its num_groups does not divide.
NormLayerCall(norm_layer, kwargs) ==
    IF norm_layer.hasName
    THEN [raised |-> "", layer |-> [func |-> norm_layer.name, nch |-> 0]]
    ELSE IF norm_layer.func = "GroupNorm" /\ kwargs.val % norm_layer.num_groups # 0
    THEN [raised |-> "ValueError", layer |-> [func |-> "", nch |-> 0]]
    ELSE [raised |-> "", layer |-> [func |-> norm_layer.func, nch |-> kwargs.val]]

(***************************************************************************)
(* Networks.  A network is a record of what its constructor stored.        *)
(***************************************************************************)
NoUpConv == [inc |-> 0, outc |-> 0, unroll |-> 0, transfer_data |-> FALSE]

NoNet ==
    [cls |-> "None", k |-> <<>>, res |-> <<>>, stages |-> <<>>, norms |-> <<>>,
     gp |-> 0, fc1 |-> <<0, 0>>, fc2 |-> <<0, 0>>,
     prioritize_with_attention |-> FALSE, double_attention |-> FALSE,
     convs |-> <<>>, up_convs |-> <<>>, final_conv |-> NoUpConv]

\* The loop of MeshConvNet.__init__ / MeshAttentionNet.__init__ over the stages:
\* conv{i}, norm{i}, (attention{i},) pool{i}.  step[i] is the constructor's
\* progress after i iterations; an iteration that raises ends the construction.
ClassifierLoop(k, res, norm_layer, norm_args, withAttention, attn_n_heads) ==
    LET n == Len(k) - 1
        a == IF withAttention THEN 1 ELSE 0
        step[i \in 0..n] ==
            IF i = 0
            THEN [raised |-> "", layers |-> 0, stages |-> <<>>, norms |-> <<>>]
            ELSE LET p == step[i - 1]
                     j == i - 1
                     nl == NormLayerCall(norm_layer, At(norm_args, j))
                 IN  IF p.raised # "" THEN p
                     ELSE IF nl.raised # ""
                     THEN [p EXCEPT !.raised = nl.raised, !.layers = @ + 1]
                     ELSE IF withAttention /\ attn_n_heads = NoHeads
                     THEN [p EXCEPT !.raised = "TypeError", !.layers = @ + 2]
                     ELSE IF j + 1 >= Len(res)
                     THEN [p EXCEPT !.raised = "IndexError", !.layers = @ + 2 + a]
                     ELSE [raised |-> "",
                           layers |-> p.layers + 3 + a,
                           stages |-> Append(p.stages,
                                        [inc |-> At(k, j), outc |-> At(k, j + 1),
                                         attention |-> withAttention,
                                         pool |-> At(res, j + 1)]),
                           norms |-> Append(p.norms, nl.layer)]
    IN  step[n]

\* The tail of both classifier constructors: gp = AvgPool1d(res[-1]), fc1, fc2.
ClassifierNet(cls, k, res, loop, nclasses, fc_n, prioritize, double) ==
    IF loop.raised # ""
    THEN [raised |-> loop.raised, layers |-> loop.layers, net |-> NoNet]
    ELSE [raised |-> "", layers |-> loop.layers + 3,
          net |-> [NoNet EXCEPT !.cls = cls, !.k = k, !.res = res,
                                !.stages = loop.stages, !.norms = loop.norms,
                                !.gp = FromEnd(res, 1),
                                !.fc1 = <<FromEnd(k, 1), fc_n>>,
                                !.fc2 = <<fc_n, nclasses>>,
                                !.prioritize_with_attention = prioritize,
                                !.double_attention = double]]

MeshConvNet(norm_layer, nf0, conv_res, nclasses, input_res, pool_res, fc_n) ==
    LET k == <<nf0>> \o conv_res
        res == <<input_res>> \o pool_res
        norm_args == get_norm_args(norm_layer, Tail(k))
    IN  IF norm_args.raised # ""
        THEN [raised |-> norm_args.raised, layers |-> 0, net |-> NoNet]
        ELSE ClassifierNet("MeshConvNet", k, res,
                           ClassifierLoop(k, res, norm_layer, norm_args.args, FALSE, NoHeads),
                           nclasses, fc_n, FALSE, FALSE)

\* MeshAttentionNet.__init__ with the check of the flags after the layers are built.
MeshAttentionNet_LateCheck(norm_layer, nf0, conv_res, nclasses, input_res, pool_res, fc_n, attn_n_heads, prioritize_with_attention, attn_use_values_as_is, double_attention) ==
    LET k == <<nf0>> \o conv_res
        res == <<input_res>> \o pool_res
        norm_args == get_norm_args(norm_layer, Tail(k))
        loop == ClassifierLoop(k, res, norm_layer, norm_args.args, TRUE, attn_n_heads)
    IN  IF norm_args.raised # ""
        THEN [raised |-> norm_args.raised, layers |-> 0, net |-> NoNet]
        ELSE IF loop.raised = "" /\ double_attention /\ ~attn_use_values_as_is
        THEN [raised |-> "AssertionError", layers |-> loop.layers + 3, net |-> NoNet]
        ELSE ClassifierNet("MeshAttentionNet", k, res, loop, nclasses, fc_n,
                           prioritize_with_attention, double_attention)

MeshAttentionNet(norm_layer, nf0, conv_res, nclasses, input_res, pool_res, fc_n, attn_n_heads, prioritize_with_attention, attn_use_values_as_is, double_attention) ==
    LET k == <<nf0>> \o conv_res
        res == <<input_res>> \o pool_res
        norm_args == get_norm_args(norm_layer, Tail(k))
    IN  IF double_attention /\ ~attn_use_values_as_is
        THEN [raised |-> "AssertionError", layers |-> 0, net |-> NoNet]
        ELSE IF norm_args.raised # ""
        THEN [raised |-> norm_args.raised, layers |-> 0, net |-> NoNet]
        ELSE ClassifierNet("MeshAttentionNet", k, res,
                           ClassifierLoop(k, res, norm_layer, norm_args.args, TRUE,
                                          attn_n_heads),
                           nclasses, fc_n, prioritize_with_attention, double_attention)

(***************************************************************************)
(* Encoder / decoder stages and their constructors.                        *)
(* pool = 0, real_pool = 0 and unroll = 0 stand for the attribute None.    *)
(***************************************************************************)
\* DownConv.__init__: conv1, `blocks` conv2, blocks + 1 norms, a MeshPool iff pool.
DownConv(in_channels, out_channels, blocks, pool) ==
    [raised |-> "",
     layers |-> 1 + blocks + (blocks + 1) + (IF pool # 0 THEN 1 ELSE 0),
     stage |-> [inc |-> in_channels, outc |-> out_channels, pool |-> pool, real_pool |-> 0,
                attention |-> FALSE, prioritize_with_attention |-> FALSE,
                double_attention |-> FALSE]]

\* DownConvWithAttention.__init__: the DownConv layers first, then the check of
\* the flags, then the pool moves to real_pool and the attention layer is built.
DownConvWithAttention(in_channels, out_channels, blocks, pool, attn_n_heads, prioritize_with_attention, attn_use_values_as_is, double_attention) ==
    LET base == DownConv(in_channels, out_channels, blocks, pool)
    IN  IF double_attention /\ ~attn_use_values_as_is
        THEN [base EXCEPT !.raised = "AssertionError"]
        ELSE [raised |-> "",
              layers |-> base.layers + 1,
              stage |-> [base.stage EXCEPT !.pool = 0, !.real_pool = base.stage.pool,
                                           !.attention = TRUE,
                                           !.prioritize_with_attention =
                                               prioritize_with_attention,
                                           !.double_attention = double_attention]]

\* MeshEncoder.__init__ with the last DownStage pooling too (to pools[-1]): a
\* pool call that no UpStage unrolls.
MeshEncoder_PoolsLastStage(pools, convs, blocks, attn_n_heads, prioritize_with_attention, attn_use_values_as_is, double_attention) ==
    LET n == Len(convs) - 1
        step[i \in 0..n] ==
            IF i = 0
            THEN [raised |-> "", layers |-> 0, convs |-> <<>>]
            ELSE LET p == step[i - 1]
                     j == i - 1
                     pool == IF j + 1 < Len(pools) THEN At(pools, j + 1)
                             ELSE FromEnd(pools, 1)
                     d == IF attn_n_heads = NoHeads
                          THEN DownConv(At(convs, j), At(convs, j + 1), blocks, pool)
                          ELSE DownConvWithAttention(At(convs, j), At(convs, j + 1), blocks,
                                                     pool, attn_n_heads,
                                                     prioritize_with_attention,
                                                     attn_use_values_as_is, double_attention)
                 IN  IF p.raised # "" THEN p
                     ELSE IF d.raised # ""
                     THEN [p EXCEPT !.raised = d.raised, !.layers = @ + d.layers]
                     ELSE [raised |-> "", layers |-> p.layers + d.layers,
                           convs |-> Append(p.convs, d.stage)]
    IN  step[n]

\* MeshEncoder.__init__ with fcs = None: one DownStage per consecutive pair of
\* convs; stage i pools to pools[i + 1] when the schedule has that entry.
\* (attn_dropout and prioritize_with_attention are always given, so the check
\* of lines 498-501 passes.)
MeshEncoder(pools, convs, blocks, attn_n_heads, prioritize_with_attention, attn_use_values_as_is, double_attention) ==
    LET n == Len(convs) - 1
        step[i \in 0..n] ==
            IF i = 0
            THEN [raised |-> "", layers |-> 0, convs |-> <<>>]
            ELSE LET p == step[i - 1]
                     j == i - 1
                     pool == IF j + 1 < Len(pools) THEN At(pools, j + 1) ELSE 0
                     d == IF attn_n_heads = NoHeads
                          THEN DownConv(At(convs, j), At(convs, j + 1), blocks, pool)
                          ELSE DownConvWithAttention(At(convs, j), At(convs, j + 1), blocks,
                                                     pool, attn_n_heads,
                                                     prioritize_with_attention,
                                                     attn_use_values_as_is, double_attention)
                 IN  IF p.raised # "" THEN p
                     ELSE IF d.raised # ""
                     THEN [p EXCEPT !.raised = d.raised, !.layers = @ + d.layers]
                     ELSE [raised |-> "", layers |-> p.layers + d.layers,
                           convs |-> Append(p.convs, d.stage)]
    IN  step[n]

\* UpConv.__init__: up_conv, conv1 (2 * out_channels inputs with transfer_data),
\* `blocks` conv2, blocks + 1 norms, a MeshUnpool iff unroll.
UpConv(in_channels, out_channels, blocks, unroll, transfer_data) ==
    [layers |-> 2 + blocks + (blocks + 1) + (IF unroll # 0 THEN 1 ELSE 0),
     stage |-> [inc |-> in_channels, outc |-> out_channels, unroll |-> unroll,
                transfer_data |-> transfer_data]]

\* UpConvWithAttention.__init__: the UpConv layers, then the attention layer.
UpConvWithAttention(in_channels, out_channels, blocks, unroll, transfer_data, attn_n_heads) ==
    LET base == UpConv(in_channels, out_channels, blocks, unroll, transfer_data)
    IN  [layers |-> base.layers + 1, stage |-> base.stage]

\* MeshDecoder.__init__ with UpStage i built as UpConv(convs[i], convs[i]).
MeshDecoder_OutIsIn(unrolls, convs, blocks, transfer_data) ==
    LET n == IF Len(convs) >= 2 THEN Len(convs) - 2 ELSE 0
        up(i) == UpConv(At(convs, i), At(convs, i), blocks,
                        IF i < Len(unrolls) THEN At(unrolls, i) ELSE 0, transfer_data)
        ups == [i \in 1..n |-> up(i - 1)]
        count[i \in 0..n] == IF i = 0 THEN 0 ELSE count[i - 1] + ups[i].layers
    IN  IF Len(convs) < 2
        THEN [raised |-> "IndexError", layers |-> 0, up_convs |-> <<>>,
              final_conv |-> NoUpConv]
        ELSE LET final == UpConv(FromEnd(convs, 2), FromEnd(convs, 1), blocks, 0, FALSE)
             IN  [raised |-> "", layers |-> count[n] + final.layers,
                  up_convs |-> [i \in 1..n |-> ups[i].stage],
                  final_conv |-> final.stage]

\* MeshDecoder.__init__: len(convs) - 2 UpStages and the final_conv, which never
\* unrolls and never transfers; convs[-2] needs two entries.
MeshDecoder(unrolls, convs, blocks, transfer_data) ==
    LET n == IF Len(convs) >= 2 THEN Len(convs) - 2 ELSE 0
        up(i) == UpConv(At(convs, i), At(convs, i + 1), blocks,
                        IF i < Len(unrolls) THEN At(unrolls, i) ELSE 0, transfer_data)
        ups == [i \in 1..n |-> up(i - 1)]
        count[i \in 0..n] == IF i = 0 THEN 0 ELSE count[i - 1] + ups[i].layers
    IN  IF Len(convs) < 2
        THEN [raised |-> "IndexError", layers |-> 0, up_convs |-> <<>>,
              final_conv |-> NoUpConv]
        ELSE LET final == UpConv(FromEnd(convs, 2), FromEnd(convs, 1), blocks, 0, FALSE)
             IN  [raised |-> "", layers |-> count[n] + final.layers,
                  up_convs |-> [i \in 1..n |-> ups[i].stage],
                  final_conv |-> final.stage]

\* Unrolls without the reverse(): the decoder would unroll in encoder order.
Unrolls_NotReversed(pools) == Front(pools)

\* unrolls = pools[:-1].copy(); unrolls.reverse()
Unrolls(pools) == Reverse(Front(pools))

\* MeshEncoderDecoder.__init__ and MeshEncoderDecoderWithAttention.__init__
\* (the former passes no attention arguments: attn_n_heads = None).
MeshEncoderDecoder(cls, pools, down_convs, up_convs, blocks, transfer_data, attn_n_heads, prioritize_with_attention, attn_use_values_as_is, double_attention) ==
    LET encoder == MeshEncoder(pools, down_convs, blocks, attn_n_heads,
                               prioritize_with_attention, attn_use_values_as_is,
                               double_attention)
        decoder == MeshDecoder(Unrolls(pools), up_convs, blocks, transfer_data)
    IN  IF encoder.raised # ""
        THEN [raised |-> encoder.raised, layers |-> encoder.layers, net |-> NoNet]
        ELSE IF decoder.raised # ""
        THEN [raised |-> decoder.raised, layers |-> encoder.layers + decoder.layers,
              net |-> NoNet]
        ELSE [raised |-> "", layers |-> encoder.layers + decoder.layers,
              net |-> [NoNet EXCEPT !.cls = cls, !.convs = encoder.convs,
                                    !.up_convs = decoder.up_convs,
                                    !.final_conv = decoder.final_conv]]

(***************************************************************************)
(* The factory.                                                            *)
(***************************************************************************)
Archs == {"mconvnet", "meshattentionnet", "meshunet", "meshunetwithattention", "meshgan"}

\* UpConvs without the [::-1]: the decoder's channels would not mirror the encoder's.
UpConvs_NotReversed(ncf, nclasses) == ncf \o <<nclasses>>

\* up_convs = ncf[::-1] + [nclasses]
UpConvs(ncf, nclasses) == Reverse(ncf) \o <<nclasses>>

\* init_net with gpu_ids = [] and a known init_type returns the network it is given.
init_net(n) == n

\* define_classifier with a default variant for an unknown selector.
define_classifier_DefaultVariant(input_nc, ncf, ninput_edges, nclasses, o, arch) ==
    LET norm_layer == get_norm_layer(o.norm, o.num_groups)
        built ==
          CASE arch = "meshattentionnet" ->
                 MeshAttentionNet(norm_layer, input_nc, ncf, nclasses, ninput_edges,
                                  o.pool_res, o.fc_n, o.attn_n_heads,
                                  o.prioritize_with_attention, o.attn_use_values_as_is,
                                  o.double_attention)
            [] arch = "meshunet" ->
                 MeshEncoderDecoder("MeshEncoderDecoder", <<ninput_edges>> \o o.pool_res,
                                    <<input_nc>> \o ncf, UpConvs(ncf, nclasses),
                                    o.resblocks, TRUE, NoHeads, FALSE, FALSE, FALSE)
            [] arch = "meshunetwithattention" ->
                 MeshEncoderDecoder("MeshEncoderDecoderWithAttention",
                                    <<ninput_edges>> \o o.pool_res,
                                    <<input_nc>> \o ncf, UpConvs(ncf, nclasses),
                                    o.resblocks, TRUE, o.attn_n_heads,
                                    o.prioritize_with_attention, o.attn_use_values_as_is,
                                    o.double_attention)
            [] OTHER ->
                 MeshConvNet(norm_layer, input_nc, ncf, nclasses, ninput_edges, o.pool_res,
                             o.fc_n)
    IN  IF norm_layer.raised # ""
        THEN [raised |-> norm_layer.raised, layers |-> 0, net |-> NoNet]
        ELSE [built EXCEPT !.net = init_net(@)]

\* define_classifier(input_nc, ncf, ninput_edges, nclasses, opt, gpu_ids, arch, ...):
\* the norm layer is chosen first, then the branch of arch builds the network.
define_classifier(input_nc, ncf, ninput_edges, nclasses, o, arch) ==
    LET norm_layer == get_norm_layer(o.norm, o.num_groups)
        built ==
          CASE arch = "mconvnet" ->
                 MeshConvNet(norm_layer, input_nc, ncf, nclasses, ninput_edges, o.pool_res,
                             o.fc_n)
            [] arch = "meshattentionnet" ->
                 MeshAttentionNet(norm_layer, input_nc, ncf, nclasses, ninput_edges,
                                  o.pool_res, o.fc_n, o.attn_n_heads,
                                  o.prioritize_with_attention, o.attn_use_values_as_is,
                                  o.double_attention)
            [] arch = "meshunet" ->
                 MeshEncoderDecoder("MeshEncoderDecoder", <<ninput_edges>> \o o.pool_res,
                                    <<input_nc>> \o ncf, UpConvs(ncf, nclasses),
                                    o.resblocks, TRUE, NoHeads, FALSE, FALSE, FALSE)
            [] arch = "meshunetwithattention" ->
                 MeshEncoderDecoder("MeshEncoderDecoderWithAttention",
                                    <<ninput_edges>> \o o.pool_res,
                                    <<input_nc>> \o ncf, UpConvs(ncf, nclasses),
                                    o.resblocks, TRUE, o.attn_n_heads,
                                    o.prioritize_with_attention, o.attn_use_values_as_is,
                                    o.double_attention)
            [] OTHER ->
                 [raised |-> "NotImplementedError", layers |-> 0, net |-> NoNet]
    IN  IF norm_layer.raised # ""
        THEN [raised |-> norm_layer.raised, layers |-> 0, net |-> NoNet]
        ELSE [built EXCEPT !.net = init_net(@)]

(***************************************************************************)
(* The layers of models/layers and of torch, by their shape contracts.     *)
(* mesh is the pooling trace of the one mesh object: a stack of entries,   *)
(* each pushed by a pool call and popped by an unpool call.                *)
(***************************************************************************)
NoEntry == [before |-> 0, after |-> 0, stage |-> 0, pass |-> 0]

\* One call of a layer, as a test double would record it.
Call(op, level, stage, inp, other, out, target, entry, note) ==
    [op |-> op, level |-> level, stage |-> stage, inp |-> inp, other |-> other,
     out |-> out, target |-> target, entry |-> entry, note |-> note]

\* MeshConv(in_channels, out_channels)(x, mesh): out_channels channels, same edges;
\* the wrapped convolution rejects an input with another channel count.
MeshConvCall(in_channels, out_channels, x, stage) ==
    IF x.isNone \/ x.ch # in_channels
    THEN [raised |-> "ShapeMismatchError", out |-> None]
    ELSE [raised |-> "", out |-> Tensor(x.b, out_channels, x.edges, "conv", stage)]

\* MeshPool(target)(x, mesh, priority): reduces the edge count to target and
\* pushes the trace entry; a target above the current edge count is an error.
MeshPoolCall(target, x, trace, stage, pass) ==
    IF target > x.edges
    THEN [raised |-> "ShapeMismatchError", out |-> None, trace |-> trace]
    ELSE [raised |-> "", out |-> Tensor(x.b, x.ch, target, "pool", stage),
          trace |-> Append(trace, [before |-> x.edges, after |-> target,
                                   stage |-> stage, pass |-> pass])]

\* MeshUnpool(unroll_target)(x, mesh): pops the mesh's current trace entry and
\* returns unroll_target edges; an empty trace is an error.
MeshUnpoolCall(unroll_target, x, trace, stage) ==
    IF Len(trace) = 0
    THEN [raised |-> "StateMisuseError", out |-> None, trace |-> trace, entry |-> NoEntry]
    ELSE [raised |-> "", out |-> Tensor(x.b, x.ch, unroll_target, "unpool", stage),
          trace |-> Front(trace), entry |-> trace[Len(trace)]]

\* MeshAttention(...)(x, mesh, dist_matrices = None): the four-element result
\* (x, attn, attn_per_edge, dist_matrices); nth tells the first call of a stage
\* from the second.
MeshAttentionCall(x, stage, nth) ==
    [x |-> Tensor(x.b, x.ch, x.edges, "attention", stage),
     attn |-> nth, attn_per_edge |-> nth, dist_matrices |-> nth, length |-> 4]

\* torch.cat((a, b), 1): b must be a tensor of a's batch and edge count.
TorchCat(a, b, stage) ==
    IF b.isNone THEN [raised |-> "TypeError", out |-> None]
    ELSE IF a.b # b.b \/ a.edges # b.edges
    THEN [raised |-> "ShapeMismatchError", out |-> None]
    ELSE [raised |-> "", out |-> Tensor(a.b, a.ch + b.ch, a.edges, "cat", stage)]

\* torch.nn.AvgPool1d(kernel)(x): stride = kernel, so x.edges \div kernel windows;
\* a kernel of 0 or one longer than the input is an error.
AvgPool1d(kernel, x) ==
    IF kernel = 0 \/ kernel > x.edges
    THEN [raised |-> "RuntimeError", out |-> None]
    ELSE [raised |-> "", out |-> Tensor(x.b, x.ch, x.edges \div kernel, "gp", 0)]

\* x.view(-1, cols): the elements of x in rows of cols.
View(x, cols) ==
    LET numel == x.b * x.ch * x.edges
    IN  IF cols = 0 \/ numel % cols # 0
        THEN [raised |-> "RuntimeError", out |-> None]
        ELSE [raised |-> "", out |-> Tensor(numel \div cols, cols, 0, "view", 0)]

\* nn.Linear(in, out)(x) on a 2-d tensor.
Linear(fc, x, by) ==
    IF x.ch # fc[1]
    THEN [raised |-> "RuntimeError", out |-> None]
    ELSE [raised |-> "", out |-> Tensor(x.b, fc[2], 0, by, 0)]

(***************************************************************************)
(* Forward passes of the stages.  Each returns what the stage raised, its  *)
(* outputs, the mesh trace it leaves and the layer calls it made.          *)
(***************************************************************************)
\* DownConv.forward with the snapshot taken after the pool call instead of before.
DownConv_forward_SnapshotAfterPool(d, x, trace, level, i, pass) ==
    LET c == MeshConvCall(d.inc, d.outc, x, i)
        convCall == Call("conv", level, i, x, None, c.out, 0, NoEntry, "")
        pl == MeshPoolCall(d.pool, c.out, trace, i, pass)
        poolCall == Call("pool", level, i, c.out, None, pl.out, d.pool, NoEntry, "absent")
    IN  IF c.raised # ""
        THEN [raised |-> c.raised, out |-> None, before_pool |-> None, trace |-> trace,
              calls |-> <<convCall>>]
        ELSE IF d.pool = 0
        THEN [raised |-> "", out |-> c.out, before_pool |-> None, trace |-> trace,
              calls |-> <<convCall>>]
        ELSE [raised |-> pl.raised, out |-> pl.out, before_pool |-> pl.out,
              trace |-> pl.trace, calls |-> <<convCall, poolCall>>]

\* DownConv.forward: conv block, then snapshot and pool iff self.pool.
DownConv_forward(d, x, trace, level, i, pass) ==
    LET c == MeshConvCall(d.inc, d.outc, x, i)
        convCall == Call("conv", level, i, x, None, c.out, 0, NoEntry, "")
        pl == MeshPoolCall(d.pool, c.out, trace, i, pass)
        poolCall == Call("pool", level, i, c.out, None, pl.out, d.pool, NoEntry, "absent")
    IN  IF c.raised # ""
        THEN [raised |-> c.raised, out |-> None, before_pool |-> None, trace |-> trace,
              calls |-> <<convCall>>]
        ELSE IF d.pool = 0
        THEN [raised |-> "", out |-> c.out, before_pool |-> None, trace |-> trace,
              calls |-> <<convCall>>]
        ELSE [raised |-> pl.raised, out |-> pl.out,
              before_pool |-> IF pl.raised = "" THEN c.out ELSE None,
              trace |-> pl.trace, calls |-> <<convCall, poolCall>>]

\* DownConvWithAttention.forward with the second attention pass's feature output
\* kept: snapshot and pool input are its output when double_attention is set.
DownConvWithAttention_forward_KeepsSecondPass(d, x, trace, level, i, pass) ==
    LET base == DownConv_forward(d, x, trace, level, i, pass)
        a1 == MeshAttentionCall(base.out, i, "first")
        a1Call == Call("attention", level, i, base.out, None, a1.x, 0, NoEntry, "fresh")
        detached == [a1.x EXCEPT !.by = "detach"]
        a2 == MeshAttentionCall(detached, i, "second")
        a2Call == Call("attention", level, i, detached, None, a2.x, 0, NoEntry, "cached")
        attn_per_edge == IF d.double_attention THEN a2.attn_per_edge ELSE a1.attn_per_edge
        edge_priorities == IF d.prioritize_with_attention THEN attn_per_edge ELSE "None"
        x2 == IF d.double_attention THEN [a2.x EXCEPT !.by = "attention2"] ELSE a1.x
        pl == MeshPoolCall(d.real_pool, x2, base.trace, i, pass)
        poolCall == Call("pool", level, i, x2, None, pl.out, d.real_pool, NoEntry,
                         edge_priorities)
        attnCalls == IF d.double_attention THEN <<a1Call, a2Call>> ELSE <<a1Call>>
    IN  IF base.raised # "" THEN base
        ELSE IF d.real_pool = 0
        THEN [raised |-> "", out |-> a1.x, before_pool |-> None, trace |-> base.trace,
              calls |-> base.calls \o <<a1Call>>]
        ELSE [raised |-> pl.raised, out |-> pl.out,
              before_pool |-> IF pl.raised = "" THEN x2 ELSE None,
              trace |-> pl.trace, calls |-> base.calls \o attnCalls \o <<poolCall>>]

\* DownConvWithAttention.forward: the DownConv forward (its pool is None), one
\* attention call, and iff self.real_pool: the optional second attention call
\* on the detached output with the cached distance matrices, the snapshot and
\* the pool with the attention priority or None.
DownConvWithAttention_forward(d, x, trace, level, i, pass) ==
    LET base == DownConv_forward(d, x, trace, level, i, pass)
        a1 == MeshAttentionCall(base.out, i, "first")
        a1Call == Call("attention", level, i, base.out, None, a1.x, 0, NoEntry, "fresh")
        detached == [a1.x EXCEPT !.by = "detach"]
        a2 == MeshAttentionCall(detached, i, "second")
        a2Call == Call("attention", level, i, detached, None, a2.x, 0, NoEntry, "cached")
        attn_per_edge == IF d.double_attention THEN a2.attn_per_edge ELSE a1.attn_per_edge
        edge_priorities == IF d.prioritize_with_attention THEN attn_per_edge ELSE "None"
        pl == MeshPoolCall(d.real_pool, a1.x, base.trace, i, pass)
        poolCall == Call("pool", level, i, a1.x, None, pl.out, d.real_pool, NoEntry,
                         edge_priorities)
        attnCalls == IF d.double_attention THEN <<a1Call, a2Call>> ELSE <<a1Call>>
    IN  IF base.raised # "" THEN base
        ELSE IF d.real_pool = 0
        THEN [raised |-> "", out |-> a1.x, before_pool |-> None, trace |-> base.trace,
              calls |-> base.calls \o <<a1Call>>]
        ELSE [raised |-> pl.raised, out |-> pl.out,
              before_pool |-> IF pl.raised = "" THEN a1.x ELSE None,
              trace |-> pl.trace, calls |-> base.calls \o attnCalls \o <<poolCall>>]

\* UpConv.forward(x, from_down): up_conv, unroll iff self.unroll, concatenation
\* with from_down iff self.transfer_data, then the conv block.
UpConv_forward(u, x, from_down, trace, level, i) ==
    LET up == MeshConvCall(u.inc, u.outc, x, i)
        upCall == Call("up_conv", level, i, x, None, up.out, 0, NoEntry, "")
        un == IF u.unroll # 0
              THEN MeshUnpoolCall(u.unroll, up.out, trace, i)
              ELSE [raised |-> "", out |-> up.out, trace |-> trace, entry |-> NoEntry]
        unCalls == IF u.unroll # 0
                   THEN <<Call("unpool", level, i, up.out, from_down, un.out, u.unroll,
                               un.entry, "")>>
                   ELSE <<>>
        ct == IF u.transfer_data
              THEN TorchCat(un.out, from_down, i)
              ELSE [raised |-> "", out |-> un.out]
        ctCalls == IF u.transfer_data
                   THEN <<Call("cat", level, i, un.out, from_down, ct.out, 0, NoEntry, "")>>
                   ELSE <<>>
        c1 == MeshConvCall(IF u.transfer_data THEN 2 * u.outc ELSE u.outc, u.outc, ct.out, i)
        c1Call == Call("conv1", level, i, ct.out, None, c1.out, 0, NoEntry, "")
    IN  IF up.raised # ""
        THEN [raised |-> up.raised, out |-> None, trace |-> trace, calls |-> <<upCall>>]
        ELSE IF un.raised # ""
        THEN [raised |-> un.raised, out |-> None, trace |-> un.trace,
              calls |-> <<upCall>> \o unCalls]
        ELSE IF ct.raised # ""
        THEN [raised |-> ct.raised, out |-> None, trace |-> un.trace,
              calls |-> <<upCall>> \o unCalls \o ctCalls]
        ELSE [raised |-> c1.raised, out |-> c1.out, trace |-> un.trace,
              calls |-> <<upCall>> \o unCalls \o ctCalls \o <<c1Call>>]

\* a, b, c = result: the targets must be as many as the elements of the result.
Unpack(result, targets) == IF result.length = targets THEN "" ELSE "ValueError"

\* UpConvWithAttention.forward: the UpConv forward, one attention call, and the
\* unpacking of its result into x2, attn, attn_per_edge.
UpConvWithAttention_forward(u, x, from_down, trace, level, i) ==
    LET base == UpConv_forward(u, x, from_down, trace, level, i)
        a == MeshAttentionCall(base.out, i, "first")
        aCall == Call("attention", level, i, base.out, None, a.x, 0, NoEntry, "fresh")
        unpacked == Unpack(a, 3)
    IN  IF base.raised # "" THEN base
        ELSE IF unpacked # ""
        THEN [raised |-> unpacked, out |-> None, trace |-> base.trace,
              calls |-> base.calls \o <<aCall>>]
        ELSE [raised |-> "", out |-> a.x, trace |-> base.trace,
              calls |-> base.calls \o <<aCall>>]

\* One iteration of the loop of MeshConvNet.forward / MeshAttentionNet.forward:
\* conv{i}, norm{i} and relu (shape kept), for the attention net the attention
\* call(s) and the priority, then pool{i}.
ClassifierStage_forward(n, st, x, trace, i, pass) ==
    LET c == MeshConvCall(st.inc, st.outc, x, i)
        convCall == Call("conv", "cls", i, x, None, c.out, 0, NoEntry, "")
        a1 == MeshAttentionCall(c.out, i, "first")
        a1Call == Call("attention", "cls", i, c.out, None, a1.x, 0, NoEntry, "fresh")
        detached == [a1.x EXCEPT !.by = "detach"]
        a2 == MeshAttentionCall(detached, i, "second")
        a2Call == Call("attention", "cls", i, detached, None, a2.x, 0, NoEntry, "cached")
        attn_per_edge == IF n.double_attention THEN a2.attn_per_edge ELSE a1.attn_per_edge
        edge_priorities == IF ~st.attention THEN "absent"
                           ELSE IF n.prioritize_with_attention THEN attn_per_edge
                           ELSE "None"
        attnCalls == IF ~st.attention THEN <<>>
                     ELSE IF n.double_attention THEN <<a1Call, a2Call>>
                     ELSE <<a1Call>>
        toPool == IF st.attention THEN a1.x ELSE c.out
        pl == MeshPoolCall(st.pool, toPool, trace, i, pass)
        poolCall == Call("pool", "cls", i, toPool, None, pl.out, st.pool, NoEntry,
                         edge_priorities)
    IN  IF c.raised # ""
        THEN [raised |-> c.raised, out |-> None, trace |-> trace, calls |-> <<convCall>>]
        ELSE [raised |-> pl.raised, out |-> pl.out, trace |-> pl.trace,
              calls |-> <<convCall>> \o attnCalls \o <<poolCall>>]

\* The head of both classifiers: gp, view(-1, k[-1]), relu(fc1), fc2.
ClassifierHead_forward(n, x) ==
    LET g == AvgPool1d(n.gp, x)
        v == View(g.out, FromEnd(n.k, 1))
        h == Linear(n.fc1, v.out, "fc1")
        o == Linear(n.fc2, h.out, "fc2")
        gpCall == Call("gp", "cls", 0, x, None, v.out, n.gp, NoEntry, "")
        fc1Call == Call("fc1", "cls", 0, v.out, None, h.out, 0, NoEntry, "")
        fc2Call == Call("fc2", "cls", 0, h.out, None, o.out, 0, NoEntry, "")
    IN  IF g.raised # ""
        THEN [raised |-> g.raised, out |-> None, calls |-> <<>>]
        ELSE IF v.raised # ""
        THEN [raised |-> v.raised, out |-> None, calls |-> <<>>]
        ELSE IF h.raised # ""
        THEN [raised |-> h.raised, out |-> None, calls |-> <<gpCall>>]
        ELSE [raised |-> o.raised, out |-> o.out, calls |-> <<gpCall, fc1Call, fc2Call>>]

(***************************************************************************)
(* Inputs.                                                                 *)
(***************************************************************************)
\* entries of opt.pool_res; 0 is an entry for which a stage builds no pool
PoolSet == {0, 2, 4}

\* channel counts of the entries of ncf
ChanSet == {2, 3}

NcfSet == SeqsUpTo(ChanSet, MaxStages)

PoolResSet == SeqsUpTo(PoolSet, MaxStages)

\* opt.norm: the classifier branches hand the norm layer to the network; the
\* other branches only have get_norm_layer accept or reject the kind.
NormOpts(arch) ==
    IF arch \in {"mconvnet", "meshattentionnet"} THEN NormTypes ELSE {"group", "layer"}

\* The attention options a branch of define_classifier reads; the branches of
\* the other architectures read none of them.
AttnOpts(arch) ==
    IF arch \in {"meshattentionnet", "meshunetwithattention"}
    THEN [attn_n_heads : {NoHeads, Heads}, prioritize_with_attention : BOOLEAN,
          attn_use_values_as_is : BOOLEAN, double_attention : BOOLEAN]
    ELSE {[attn_n_heads |-> NoHeads, prioritize_with_attention |-> FALSE,
           attn_use_values_as_is |-> FALSE, double_attention |-> FALSE]}

NoOpt ==
    [arch |-> "", ncf |-> <<>>, pool_res |-> <<>>, norm |-> "", num_groups |-> 0,
     fc_n |-> 0, resblocks |-> 0, attn_n_heads |-> NoHeads,
     prioritize_with_attention |-> FALSE, attn_use_values_as_is |-> FALSE,
     double_attention |-> FALSE]

MakeOpt(arch, ncf, pool_res, norm, a) ==
    [arch |-> arch, ncf |-> ncf, pool_res |-> pool_res, norm |-> norm,
     num_groups |-> NumGroups, fc_n |-> FcN, resblocks |-> ResBlocks,
     attn_n_heads |-> a.attn_n_heads,
     prioritize_with_attention |-> a.prioritize_with_attention,
     attn_use_values_as_is |-> a.attn_use_values_as_is,
     double_attention |-> a.double_attention]

IsClassifier(n) == n.cls \in {"MeshConvNet", "MeshAttentionNet"}

IsSegmenter(n) == n.cls \in {"MeshEncoderDecoder", "MeshEncoderDecoderWithAttention"}

(***************************************************************************)
(* The state machine.                                                      *)
(***************************************************************************)
Init ==
    /\ opt = NoOpt
    /\ net = NoNet
    /\ pc = "idle"
    /\ err = ""
    /\ layersBuilt = 0
    /\ fe = None
    /\ mesh = <<>>
    /\ encoder_outs = <<>>
    /\ idx = 0
    /\ calls = <<>>
    /\ passes = 0

\* define_classifier(...) on one parameter bundle: returns a network or raises.
DefineClassifier ==
    /\ pc = "idle"
    /\ \E arch \in Archs, ncf \in NcfSet, pool_res \in PoolResSet :
         \E norm \in NormOpts(arch), a \in AttnOpts(arch) :
           LET o == MakeOpt(arch, ncf, pool_res, norm, a)
               r == define_classifier(InputNc, ncf, NInputEdges, NClasses, o, arch)
           IN  /\ opt' = o
               /\ net' = r.net
               /\ err' = r.raised
               /\ layersBuilt' = r.layers
               /\ pc' = IF r.raised = "" THEN "built" ELSE "rejected"
    /\ UNCHANGED <<fe, mesh, encoder_outs, idx, calls, passes>>

\* positions at which the caller holds a network and no call is running
Callable == {"built", "done", "failed", "done_alone", "failed_alone"}

\* net(x, mesh) is called on the input features of the (same) mesh object.
StartForward ==
    /\ pc \in Callable
    /\ passes < MaxPasses
    /\ passes' = passes + 1
    /\ fe' = Tensor(BatchSize, InputNc, NInputEdges, "input", 0)
    /\ idx' = 0
    /\ calls' = <<>>
    /\ encoder_outs' = <<>>
    /\ err' = ""
    /\ pc' = IF IsClassifier(net) THEN "classifier" ELSE "encoder"
    /\ UNCHANGED <<opt, net, layersBuilt, mesh>>

\* One iteration of the classifier's loop over its stages.
ClassifierStage ==
    /\ pc = "classifier"
    /\ idx < Len(net.stages)
    /\ LET r == ClassifierStage_forward(net, At(net.stages, idx), fe, mesh, idx, passes)
       IN  /\ calls' = calls \o r.calls
           /\ mesh' = r.trace
           /\ err' = r.raised
           /\ fe' = r.out
           /\ pc' = IF r.raised = "" THEN "classifier" ELSE "failed"
           /\ idx' = idx + 1
    /\ UNCHANGED <<opt, net, layersBuilt, encoder_outs, passes>>

\* The classifier's head, after the last stage; the forward pass returns.
ClassifierHead ==
    /\ pc = "classifier"
    /\ idx = Len(net.stages)
    /\ LET r == ClassifierHead_forward(net, fe)
       IN  /\ calls' = calls \o r.calls
           /\ err' = r.raised
           /\ fe' = r.out
           /\ pc' = IF r.raised = "" THEN "done" ELSE "failed"
    /\ UNCHANGED <<opt, net, layersBuilt, mesh, encoder_outs, idx, passes>>

\* One iteration of MeshEncoder.forward: the stage's forward and
\* encoder_outs.append(before_pool); after the last stage the decoder starts.
EncoderStage ==
    /\ pc = "encoder"
    /\ idx < Len(net.convs)
    /\ LET d == At(net.convs, idx)
           r == IF d.attention
                THEN DownConvWithAttention_forward(d, fe, mesh, "down", idx, passes)
                ELSE DownConv_forward(d, fe, mesh, "down", idx, passes)
       IN  /\ calls' = calls \o r.calls
           /\ mesh' = r.trace
           /\ err' = r.raised
           /\ fe' = r.out
           /\ encoder_outs' = IF r.raised = "" THEN Append(encoder_outs, r.before_pool)
                              ELSE encoder_outs
           /\ pc' = IF r.raised # "" THEN "failed"
                    ELSE IF idx + 1 = Len(net.convs) THEN "decoder" ELSE "encoder"
           /\ idx' = IF r.raised = "" /\ idx + 1 = Len(net.convs) THEN 0 ELSE idx + 1
    /\ UNCHANGED <<opt, net, layersBuilt, passes>>

\* net.decoder((fe, meshes)) is called on its own, encoder_outs left at its
\* default None, on features of the decoder's input channel count.
StartDecoderAlone ==
    /\ pc \in Callable
    /\ IsSegmenter(net)
    /\ passes < MaxPasses
    /\ passes' = passes + 1
    /\ fe' = Tensor(BatchSize,
                    IF Len(net.up_convs) > 0 THEN At(net.up_convs, 0).inc
                    ELSE net.final_conv.inc,
                    NInputEdges, "input", 0)
    /\ idx' = 0
    /\ calls' = <<>>
    /\ encoder_outs' = <<>>
    /\ err' = ""
    /\ pc' = "decoder_alone"
    /\ UNCHANGED <<opt, net, layersBuilt, mesh>>

\* One iteration of MeshDecoder.forward: before_pool = None, replaced by
\* encoder_outs[-(i + 2)] if encoder_outs is not None, and the UpStage's forward.
DecoderStage ==
    /\ pc \in {"decoder", "decoder_alone"}
    /\ idx < Len(net.up_convs)
    /\ IF pc = "decoder" /\ idx + 2 > Len(encoder_outs)
       THEN /\ err' = "IndexError"
            /\ pc' = "failed"
            /\ UNCHANGED <<fe, mesh, calls, idx>>
       ELSE LET before_pool == IF pc = "decoder" THEN FromEnd(encoder_outs, idx + 2)
                               ELSE None
                r == UpConv_forward(At(net.up_convs, idx), fe, before_pool, mesh, "up", idx)
            IN  /\ calls' = calls \o r.calls
                /\ mesh' = r.trace
                /\ err' = r.raised
                /\ fe' = r.out
                /\ pc' = IF r.raised = "" THEN pc
                         ELSE IF pc = "decoder" THEN "failed" ELSE "failed_alone"
                /\ idx' = idx + 1
    /\ UNCHANGED <<opt, net, layersBuilt, encoder_outs, passes>>

\* self.final_conv((fe, meshes)): from_down = None; the forward pass returns.
FinalConv ==
    /\ pc \in {"decoder", "decoder_alone"}
    /\ idx = Len(net.up_convs)
    /\ LET r == UpConv_forward(net.final_conv, fe, None, mesh, "final", idx)
       IN  /\ calls' = calls \o r.calls
           /\ mesh' = r.trace
           /\ err' = r.raised
           /\ fe' = r.out
           /\ pc' = IF pc = "decoder"
                    THEN (IF r.raised = "" THEN "done" ELSE "failed")
                    ELSE (IF r.raised = "" THEN "done_alone" ELSE "failed_alone")
    /\ UNCHANGED <<opt, net, layersBuilt, encoder_outs, idx, passes>>

\* An UpStage with attention is built on its own (no network of this module
\* builds one); the caller holds it as a module whose UpConv attributes are
\* kept in final_conv.
BuildUpConvWithAttention ==
    /\ pc = "idle"
    /\ \E in_channels \in ChanSet, out_channels \in ChanSet, unroll \in PoolSet,
          transfer_data \in BOOLEAN :
         LET r == UpConvWithAttention(in_channels, out_channels, ResBlocks, unroll,
                                      transfer_data, Heads)
         IN  /\ net' = [NoNet EXCEPT !.cls = "UpConvWithAttention", !.final_conv = r.stage]
             /\ layersBuilt' = r.layers
    /\ pc' = "stage_built"
    /\ UNCHANGED <<opt, err, fe, mesh, encoder_outs, idx, calls, passes>>

\* The UpStage with attention is called on features of its input channel count,
\* with a skip of its output channel count or with None.
UpConvWithAttentionForward ==
    /\ pc \in {"stage_built", "stage_done", "stage_failed"}
    /\ passes < MaxPasses
    /\ passes' = passes + 1
    /\ \E skipGiven \in BOOLEAN :
         LET u == net.final_conv
             x == Tensor(BatchSize, u.inc, NInputEdges, "input", 0)
             from_down == IF skipGiven
                          THEN Tensor(BatchSize, u.outc, NInputEdges, "skip", 0)
                          ELSE None
             r == UpConvWithAttention_forward(u, x, from_down, mesh, "stage", 0)
         IN  /\ calls' = r.calls
             /\ mesh' = r.trace
             /\ err' = r.raised
             /\ fe' = r.out
             /\ pc' = IF r.raised = "" THEN "stage_done" ELSE "stage_failed"
    /\ UNCHANGED <<opt, net, layersBuilt, encoder_outs, idx>>

Next ==
    \/ DefineClassifier
    \/ StartForward
    \/ StartDecoderAlone
    \/ ClassifierStage
    \/ ClassifierHead
    \/ EncoderStage
    \/ DecoderStage
    \/ FinalConv
    \/ BuildUpConvWithAttention
    \/ UpConvWithAttentionForward

Spec == Init /\ [][Next]_vars

(***************************************************************************)
(* Properties.                                                             *)
(***************************************************************************)
Constructed == pc \notin {"idle", "stage_built", "stage_done", "stage_failed"}

\* the decoder was called on its own, without the encoder and its skip cache
DecoderAlone == pc \in {"decoder_alone", "done_alone", "failed_alone"}

\* pools as define_classifier hands them to the encoder-decoder
PoolsOf(o) == <<NInputEdges>> \o o.pool_res

\* the calls of one layer kind recorded in this forward pass, in order
CallsOf(op) == SelectSeq(calls, LAMBDA c : c.op = op)

\* MeshEncoder.forward has returned in this pass: the decoder is running or ran
EncoderReturned ==
    /\ IsSegmenter(net)
    /\ \/ pc = "decoder"
       \/ pc \in {"done", "failed"} /\ \E j \in 1..Len(calls) : calls[j].level \in {"up", "final"}

\* A schedule pair the segmenter is laid out for: one pooling resolution per
\* DownStage but the last, each positive, none above the edge count it pools.
NonZeroSchedule(o) ==
    /\ Len(o.pool_res) = Len(o.ncf) - 1
    /\ \A i \in 1..Len(o.pool_res) : o.pool_res[i] # 0

WellFormedSchedule(o) ==
    /\ NonZeroSchedule(o)
    /\ \A i \in 1..Len(o.pool_res) : PoolsOf(o)[i + 1] <= PoolsOf(o)[i]

\* C1 as stated: every 'meshunet' segmenter that define_classifier returns
\* completes its forward pass on a mesh of E = ninput_edges edges and returns a
\* tensor of E edges and nclasses channels.
C1_AnyAcceptedSchedule ==
    (opt.arch = "meshunet" /\ pc \in {"done", "failed"})
        => (pc = "done" /\ fe.edges = NInputEdges /\ fe.ch = NClasses)

\* C1 amended: a 'meshunet' segmenter built from ncf and opt.pool_res with
\* len(pool_res) = len(ncf) - 1 and pool_res positive, non-increasing and at most
\* ninput_edges never fails its forward pass, can always take its next step, and
\* returns a tensor of E edges, nclasses channels and the input's batch size.
C1_WellFormedForward ==
    (opt.arch = "meshunet" /\ pc # "rejected" /\ WellFormedSchedule(opt))
        => /\ pc # "failed"
           /\ pc \in {"encoder", "decoder"} => ENABLED (EncoderStage \/ DecoderStage \/ FinalConv)
           /\ pc = "done" => /\ fe.edges = NInputEdges
                             /\ fe.ch = NClasses
                             /\ fe.b = BatchSize

\* C1 witness: a three-level segmenter pooling 8 -> 4 -> 2 has returned.
C1_Witness ==
    /\ opt.arch = "meshunet"
    /\ pc = "done"
    /\ opt.ncf = <<2, 3, 2>>
    /\ opt.pool_res = <<4, 2>>
    /\ fe.edges = NInputEdges
    /\ Len(CallsOf("unpool")) = 2

\* C2: when MeshEncoder.forward has returned, the skip cache has len(convs) - 1
\* entries, entry i is non-null exactly when pools has an entry i + 1 and it is
\* not 0, and a non-null entry is the tensor that stage i handed to its pool call:
\* stage i's channel count and its edge count before pooling, the output of the
\* conv block or, with attention, of the attention layer.
C2_SkipCache ==
    EncoderReturned =>
        /\ Len(encoder_outs) = Len(<<InputNc>> \o opt.ncf) - 1
        /\ \A i \in 0..(Len(encoder_outs) - 1) :
             LET pools == PoolsOf(opt)
                 e == At(encoder_outs, i)
                 poolCalls == SelectSeq(calls, LAMBDA c : c.op = "pool" /\ c.stage = i)
             IN  /\ ~e.isNone <=> (i + 1 < Len(pools) /\ At(pools, i + 1) # 0)
                 /\ e.isNone => Len(poolCalls) = 0
                 /\ ~e.isNone =>
                      /\ Len(poolCalls) = 1
                      /\ e = poolCalls[1].inp
                      /\ e.ch = At(opt.ncf, i)
                      /\ e.stage = i
                      /\ e.by = IF At(net.convs, i).attention THEN "attention" ELSE "conv"
                      /\ poolCalls[1].out.edges = At(pools, i + 1)

\* C2 witness: an attention encoder of three stages returned a cache whose first
\* two entries are snapshots and whose last entry is null.
C2_Witness ==
    /\ EncoderReturned
    /\ Len(encoder_outs) = 3
    /\ ~encoder_outs[1].isNone
    /\ encoder_outs[2].by = "attention"
    /\ encoder_outs[2].edges = 4
    /\ encoder_outs[3].isNone

\* The pairing of the k-th unpool call that returned in this pass with the k-th
\* most recent pool call: same trace entry, unroll target = edge count before
\* that pool, and the skip handed to the UpStage is skip_cache[-(stage + 2)], a
\* snapshot of that edge count.
LifoPaired ==
    LET pools == CallsOf("pool")
        unpools == SelectSeq(calls, LAMBDA c : c.op = "unpool" /\ ~c.out.isNone)
    IN  \A k \in 1..Len(unpools) :
          LET u == unpools[k]
          IN  /\ k <= Len(pools)
              /\ LET p == pools[Len(pools) - k + 1]
                 IN  /\ u.entry.stage = p.stage
                     /\ u.entry.pass = passes
                     /\ u.entry.before = p.inp.edges
                     /\ u.target = p.inp.edges
                     /\ u.out.edges = p.inp.edges
                     /\ u.inp.edges = p.out.edges
                     /\ u.other = FromEnd(encoder_outs, u.stage + 2)
                     /\ ~u.other.isNone
                     /\ u.other.edges = p.inp.edges
                     /\ u.other.stage = p.stage

\* C3 as stated: in every forward pass of an encoder-decoder network pool and unpool calls are
\* paired in reverse order, with the unroll target and the skip snapshot at the
\* edge count the matching DownStage had before pooling.
C3_AnySchedule == (IsSegmenter(net) /\ ~DecoderAlone) => LifoPaired

\* C3 amended: the pairing holds for an encoder-decoder built by define_classifier
\* with len(pool_res) = len(ncf) - 1 and no 0 in pool_res.
C3_LifoPairing == (IsSegmenter(net) /\ ~DecoderAlone /\ NonZeroSchedule(opt)) => LifoPaired

\* C3 witness: two unpool calls have popped the entries of stages 1 and 0.
C3_Witness ==
    /\ IsSegmenter(net)
    /\ NonZeroSchedule(opt)
    /\ opt.pool_res = <<4, 2>>
    /\ Len(CallsOf("unpool")) = 2
    /\ CallsOf("unpool")[1].entry.stage = 1
    /\ CallsOf("unpool")[2].entry.stage = 0
    /\ mesh = <<>>

\* C4 as stated: whatever the variant, a channel schedule and a pooling schedule
\* with len(channel_schedule) - 1 # len(pool_schedule) - 1 (the pooling schedule
\* too short or too long) leave define_classifier without a network.
C4_MismatchRejected ==
    (Constructed /\ opt.arch # "meshgan"
       /\ Len(<<InputNc>> \o opt.ncf) - 1 # Len(PoolsOf(opt)) - 1)
        => net = NoNet

\* C5: the attention classifier with double_attention and without
\* attn_use_values_as_is is never built: define_classifier raises, returns no
\* network, and has built no layer when it raises.
C5_AttentionNetFlagsRejected ==
    (Constructed /\ opt.arch = "meshattentionnet"
       /\ opt.double_attention /\ ~opt.attn_use_values_as_is)
        => /\ pc = "rejected"
           /\ err # ""
           /\ net = NoNet
           /\ layersBuilt = 0

\* C5 witness: the flags are rejected for a three-stage schedule that the
\* constructor accepts with attn_use_values_as_is set.
C5_Witness ==
    /\ pc = "rejected"
    /\ opt.arch = "meshattentionnet"
    /\ opt.double_attention
    /\ ~opt.attn_use_values_as_is
    /\ opt.attn_n_heads = Heads
    /\ opt.norm = "group"
    /\ opt.ncf = <<2, 3, 2>>
    /\ opt.pool_res = <<4, 4, 2>>
    /\ err = "AssertionError"

\* C6 as stated: the attention encoder-decoder with double_attention and without
\* attn_use_values_as_is is never returned, whatever attn_n_heads and the
\* schedules are.
C6_UNetFlagsRejected ==
    (Constructed /\ opt.arch = "meshunetwithattention"
       /\ opt.double_attention /\ ~opt.attn_use_values_as_is)
        => net = NoNet

\* the variant each architecture selector names
ArchClass(arch) ==
    CASE arch = "mconvnet" -> "MeshConvNet"
      [] arch = "meshattentionnet" -> "MeshAttentionNet"
      [] arch = "meshunet" -> "MeshEncoderDecoder"
      [] arch = "meshunetwithattention" -> "MeshEncoderDecoderWithAttention"
      [] OTHER -> "None"

\* C7: a network returned by define_classifier is of the variant its selector
\* names, and an unknown selector returns no network: the call raises.
C7_FactoryDispatch ==
    Constructed =>
        /\ net # NoNet => (ArchClass(opt.arch) # "None" /\ net.cls = ArchClass(opt.arch))
        /\ ArchClass(opt.arch) = "None" =>
             (pc = "rejected" /\ net = NoNet /\ err = "NotImplementedError")
        /\ pc = "rejected" <=> net = NoNet

\* C7 witness: an unknown selector with a known normalization kind was rejected.
C7_Witness ==
    /\ pc = "rejected"
    /\ opt.arch = "meshgan"
    /\ opt.norm = "group"
    /\ opt.ncf = <<2, 3>>
    /\ opt.pool_res = <<4>>
    /\ err = "NotImplementedError"

\* A classifier bundle with nothing but the normalization kind to object to:
\* a pooling resolution for every stage, consistent attention flags, a head count.
ClassifierBundleOk(o) ==
    /\ o.arch \in {"mconvnet", "meshattentionnet"}
    /\ Len(o.pool_res) >= Len(o.ncf)
    /\ \A i \in 1..Len(o.ncf) : o.ncf[i] % o.num_groups = 0
    /\ o.arch = "meshattentionnet" =>
         /\ o.attn_n_heads # NoHeads
         /\ ~(o.double_attention /\ ~o.attn_use_values_as_is)

\* C8 as stated: for each of batch, instance, group and none a classifier is
\* built, with one norm layer per stage carrying that stage's channel count
\* (NoNorm carries none); only another kind is rejected.
C8_AllNormKinds ==
    (Constructed /\ ClassifierBundleOk(opt))
        => IF opt.norm \in {"batch", "instance", "group", "none"}
           THEN /\ net # NoNet
                /\ Len(net.norms) = Len(opt.ncf)
                /\ \A i \in 1..Len(net.norms) :
                     net.norms[i].func # "NoNorm" => net.norms[i].nch = opt.ncf[i]
           ELSE net = NoNet

\* C9 as stated: a classifier's forward pass that returns has pooled globally
\* over exactly the edges left after the last stage, giving (B, channel_schedule[-1]),
\* and returns logits (B, nclasses).
C9_HeadShapes ==
    (IsClassifier(net) /\ pc = "done")
        => LET g == CallsOf("gp")[1]
           IN  /\ g.target = g.inp.edges
               /\ g.out.b = BatchSize
               /\ g.out.ch = FromEnd(<<InputNc>> \o opt.ncf, 1)
               /\ fe.b = BatchSize
               /\ fe.ch = NClasses

\* the UpStage of a recorded call
UpStageOf(c) == IF c.level = "final" THEN net.final_conv ELSE At(net.up_convs, c.stage)

\* C10: in a segmenter built by define_classifier, a skip snapshot handed to a
\* concatenation has the UpStage's out_channels, the concatenation joins it to
\* out_channels channels of the up-convolution, the main convolution of an
\* UpStage with transfer_data gets 2 x out_channels channels from it, and the
\* main convolution of the UpStage without transfer_data gets out_channels.
C10_ConcatChannels ==
    IsSegmenter(net) =>
        \A j \in 1..Len(calls) :
          LET c == calls[j]
              u == UpStageOf(c)
          IN  /\ c.op = "cat" =>
                   /\ u.transfer_data
                   /\ c.inp.ch = u.outc
                   /\ ~c.other.isNone => c.other.ch = u.outc
                   /\ ~c.out.isNone => c.out.ch = 2 * u.outc
              /\ (c.op = "conv1" /\ u.transfer_data) =>
                   (c.inp.by = "cat" /\ c.inp.ch = 2 * u.outc /\ c.inp = calls[j - 1].out)
              /\ (c.op = "conv1" /\ ~u.transfer_data) =>
                   (c.level = "final" /\ c.inp.by = "conv" /\ c.inp.ch = u.outc)

\* C10 witness: both UpStages of a (2, 3, 2) segmenter concatenated, to 6 and to
\* 4 channels, and the final stage convolved nclasses channels.
C10_Witness ==
    /\ opt.arch = "meshunet"
    /\ opt.ncf = <<2, 3, 2>>
    /\ pc = "done"
    /\ Len(CallsOf("cat")) = 2
    /\ CallsOf("cat")[1].out.ch = 6
    /\ CallsOf("cat")[1].other.ch = 3
    /\ CallsOf("cat")[2].out.ch = 4
    /\ CallsOf("conv1")[3].inp.ch = NClasses

\* C11 as stated: whatever the variant, a forward pass that returns leaves the
\* pooling trace of the mesh empty.
C11_AnyVariantTraceEmpty == pc = "done" => mesh = <<>>

\* C11 amended: a forward pass of an encoder-decoder built with
\* len(pool_res) = len(ncf) - 1 that returns, on a mesh whose trace was empty
\* before the first pass, leaves the trace empty: it made as many unpool calls
\* as pool calls, every unpool call popped an entry (none met an empty trace),
\* the entry was pushed in this same pass by the pool call it mirrors, and no
\* two unpool calls popped the entry of the same stage.
C11_SegmenterTraceBalanced ==
    (IsSegmenter(net) /\ Len(opt.pool_res) = Len(opt.ncf) - 1 /\ pc = "done")
        => LET pools == CallsOf("pool")
               unpools == CallsOf("unpool")
           IN  /\ mesh = <<>>
               /\ Len(unpools) = Len(pools)
               /\ \A k \in 1..Len(unpools) :
                    /\ ~unpools[k].out.isNone
                    /\ unpools[k].entry # NoEntry
                    /\ unpools[k].entry.pass = passes
                    /\ unpools[k].entry.stage = pools[Len(pools) - k + 1].stage
                    /\ unpools[k].entry.after = pools[Len(pools) - k + 1].out.edges
                    /\ \A m \in 1..Len(unpools) :
                         unpools[m].entry.stage = unpools[k].entry.stage => m = k

\* C11 witness: the second pass of an attention segmenter on the same mesh has
\* returned after two pool and two unpool calls, and the trace is empty.
C11_Witness ==
    /\ opt.arch = "meshunetwithattention"
    /\ opt.attn_n_heads = Heads
    /\ opt.pool_res = <<4, 2>>
    /\ opt.ncf = <<2, 3, 2>>
    /\ passes = 2
    /\ pc = "done"
    /\ Len(CallsOf("pool")) = 2
    /\ Len(CallsOf("unpool")) = 2
    /\ CallsOf("unpool")[1].entry.pass = 2
    /\ mesh = <<>>

\* C12 as stated: MeshDecoder.forward called without a skip cache hands None to
\* every UpStage; an UpStage calls torch.cat only with transfer_data set and a
\* skip that is not None; and an UpStage handed None skips the concatenation and
\* completes, so no concatenation raises TypeError.
C12_NullSkipSkipsConcat ==
    IsSegmenter(net) =>
        /\ DecoderAlone =>
             \A j \in 1..Len(calls) :
               calls[j].op \in {"unpool", "cat"} => calls[j].other.isNone
        /\ \A j \in 1..Len(calls) :
             calls[j].op = "cat" =>
               (UpStageOf(calls[j]).transfer_data /\ ~calls[j].other.isNone)
        /\ err # "TypeError"

\* the calls DownStage i made in this pass, in order
DownCalls(i) == SelectSeq(calls, LAMBDA c : c.level = "down" /\ c.stage = i)

\* DownStage i has returned in this pass and nothing ran after it yet
JustReturned(i) ==
    \/ pc = "encoder" /\ idx = i + 1
    \/ pc = "decoder" /\ idx = 0 /\ i + 1 = Len(net.convs) /\ Len(CallsOf("up_conv")) = 0

\* C13: a DownStage with attention whose conv block returned makes, with a
\* pooling resolution, exactly one pool call, the last call of the stage; the
\* pool input and the snapshot are the first attention call's output; the pool
\* gets a priority iff prioritize_with_attention, from the second attention call
\* iff double_attention; the second call runs on the detached output of the first
\* with the cached distance matrices and its output goes nowhere.  Without a
\* pooling resolution the stage makes one attention call and no pool call, and
\* returns the attention output with a null snapshot.
C13_AttentionThenPool ==
    \A i \in 0..(Len(net.convs) - 1) :
      LET d == At(net.convs, i)
          cs == DownCalls(i)
          attns == SelectSeq(cs, LAMBDA c : c.op = "attention")
          pools == SelectSeq(cs, LAMBDA c : c.op = "pool")
      IN  (IsSegmenter(net) /\ d.attention /\ Len(cs) > 0 /\ ~cs[1].out.isNone) =>
            /\ cs[1].op = "conv"
            /\ attns[1] = cs[2]
            /\ attns[1].inp = cs[1].out
            /\ attns[1].note = "fresh"
            /\ d.real_pool # 0 =>
                 /\ Len(pools) = 1
                 /\ pools[1] = cs[Len(cs)]
                 /\ pools[1].target = d.real_pool
                 /\ pools[1].inp = attns[1].out
                 /\ Len(attns) = IF d.double_attention THEN 2 ELSE 1
                 /\ pools[1].note = IF ~d.prioritize_with_attention THEN "None"
                                    ELSE IF d.double_attention THEN "second" ELSE "first"
                 /\ d.double_attention =>
                      /\ attns[2].inp = [attns[1].out EXCEPT !.by = "detach"]
                      /\ attns[2].note = "cached"
                 /\ JustReturned(i) =>
                      /\ At(encoder_outs, i) = attns[1].out
                      /\ fe = pools[1].out
                      /\ fe.edges = d.real_pool
            /\ d.real_pool = 0 =>
                 /\ Len(pools) = 0
                 /\ Len(attns) = 1
                 /\ JustReturned(i) =>
                      /\ fe = attns[1].out
                      /\ At(encoder_outs, i).isNone

\* C13 witness: stage 0 of an attention encoder with double_attention and
\* prioritize_with_attention pooled 8 -> 4 edges on the second call's priority,
\* and stage 1, the last, has just returned its attention output unpooled.
C13_Witness ==
    /\ opt.arch = "meshunetwithattention"
    /\ opt.double_attention
    /\ opt.prioritize_with_attention
    /\ opt.ncf = <<2, 3>>
    /\ opt.pool_res = <<4>>
    /\ JustReturned(1)
    /\ Len(DownCalls(0)) = 4
    /\ DownCalls(0)[4].op = "pool"
    /\ DownCalls(0)[4].note = "second"
    /\ DownCalls(0)[4].inp.by = "attention"
    /\ Len(DownCalls(1)) = 2
    /\ fe.by = "attention"
    /\ fe.stage = 1

\* C14 as stated: a forward call of an UpStage with attention that reached its
\* attention call (the attention returning its four-element result) made that
\* call once, after the conv block, completes without error and returns the
\* attention's updated features.
C14_UpStageAttentionReturns ==
    (pc \in {"stage_done", "stage_failed"} /\ Len(CallsOf("attention")) > 0)
        => /\ Len(CallsOf("attention")) = 1
           /\ calls[Len(calls)].op = "attention"
           /\ calls[Len(calls) - 1].op = "conv1"
           /\ pc = "stage_done"
           /\ err = ""
           /\ fe = calls[Len(calls)].out

====
